---- MODULE Spec2Model ----
(***************************************************************************)
(* Model of the drowsiness detector's signal path:                         *)
(*   - PERCLOSAnalyzer   (jetson_app/analysis/perclos_calculator.py)       *)
(*   - FaceAnalysis and DrowsinessDetector (testing/drowsiness.py)         *)
(*                                                                         *)
(* Numbers.  Python floats are modelled by exact rationals <<num, den>>    *)
(* in lowest terms with den > 0.  EAR samples fed to the analyzer are      *)
(* integers in hundredths (21 stands for 0.21).  Timestamps are integer    *)
(* clock ticks (seconds).  For the window sizes reachable here a quotient  *)
(* closed/total compares with 0.15 and 0.40 in floating point exactly as   *)
(* the rationals do.                                                       *)
(*                                                                         *)
(* The state name "Microsueno" stands for the source's "Microsueño".       *)
(***************************************************************************)
EXTENDS Integers, Sequences, FiniteSets, TLC

VARIABLES
    \* PERCLOSAnalyzer fields
    window_seconds,     \* self.window_seconds
    ear_history,        \* self.ear_history: deque of <<timestamp, ear_value>>
    current_perclos,    \* self.current_perclos
    current_state,      \* self.current_state
    \* environment and call bookkeeping of the analyzer
    now,                \* the last value time.time() returned
    last_op,            \* the analyzer method that ran last
    ret,                \* what that method returned
    popped,             \* samples the last add_ear_measurement evicted
    \* FaceAnalysis fields and the last call made on it
    ear_smoothing_alpha,    \* self.ear_smoothing_alpha
    ear_avg_ema,        \* self.ear_avg_ema
    last_call,          \* "update" or "detect", whichever was called last
    points,             \* the landmark list the last call worked on
    result,             \* what the last update()/detect() returned
    prev_ema,           \* ear_avg_ema as it was when the last call began
    calls,              \* number of update()/detect() calls made so far
    \* ModelEvaluator: the dataset on disk, the locals of evaluate(), its fields
    dataset,            \* [drowsy, non_drowsy]: the images of the two directories
    image_paths,        \* the images in the order load_dataset returns them
    true_labels,
    image_index,        \* images the loop of evaluate() has gone through
    predicted_labels,
    inference_times,
    ear_values,
    failed_count,
    results,            \* self.results
    detector,           \* self.detector: "none", "open" or "closed"
    pc,                 \* where evaluate() stands, or the exception that ended it
    stdout_failed,      \* the failed-detection count printed at line 310
    first_run,          \* how an earlier run on the same dataset ended
    ear_by_class,       \* ear_drowsy and ear_alert of the EAR page of the report
    \* CameraHandler.run: the capture loop and the locals of one turn of it
    run_pc,             \* where run() stands, or the exception that ended it
    frame,              \* the frame read: its size and what the face mesh finds
    eyes,               \* ear_l, ear_r and ear inside FaceParser.process_frame
    returned,           \* what process_frame returned: an image of so many rows
    estado              \* the snapshot get_state() gave for this frame

vars == <<window_seconds, ear_history, current_perclos, current_state, now,
          last_op, ret, popped, ear_smoothing_alpha, ear_avg_ema,
          last_call, points, result, prev_ema, calls,
          dataset, image_paths, true_labels, image_index, predicted_labels,
          inference_times, ear_values, failed_count, results, detector, pc,
          stdout_failed, first_run, ear_by_class,
          run_pc, frame, eyes, returned, estado>>

analyzerVars == <<window_seconds, ear_history, current_perclos, current_state,
                  now, last_op, ret, popped>>

faceVars == <<ear_smoothing_alpha, ear_avg_ema, last_call, points, result,
              prev_ema, calls>>

evalVars == <<dataset, image_paths, true_labels, image_index, predicted_labels,
              inference_times, ear_values, failed_count, results, detector, pc,
              stdout_failed, first_run, ear_by_class>>

cameraVars == <<run_pc, frame, eyes, returned, estado>>

\* Python's None: as a plain return value, as an unset float, as an absent object
None == "None"
Unset == <<>>
Nothing == [none |-> TRUE]

(***************************************************************************)
(* Bounds of the model.                                                    *)
(***************************************************************************)
MaxTime == 3        \* the clock is observed at ticks 0..MaxTime
MaxWindow == 2      \* window_seconds is drawn from 1..MaxWindow
MaxHistory == 5     \* samples the window may hold at once
MaxTotal == 20      \* largest total_count fed to the classifier on its own
MaxCalls == 3       \* update()/detect() calls made on one FaceAnalysis
MaxInferenceMs == 1 \* inference_time_ms is measured as 0..MaxInferenceMs
MaxImages == 3      \* images in the dataset of one evaluation run
MaxRerunImages == 2 \* images in a dataset that is evaluated twice

(***************************************************************************)
(* Rational arithmetic standing in for Python float arithmetic.            *)
(***************************************************************************)
Abs(x) == IF x < 0 THEN -x ELSE x

RECURSIVE GCD(_, _)
GCD(a, b) == IF b = 0 THEN a ELSE GCD(b, a % b)

\* n / d for d # 0, in lowest terms with a positive denominator
Frac(n, d) ==
    LET g == GCD(Abs(n), Abs(d))
        s == IF d < 0 THEN -1 ELSE 1
    IN  <<(s * n) \div g, (s * d) \div g>>

Zero == <<0, 1>>

FracGeq(p, q) == p[1] * q[2] >= q[1] * p[2]
FracLt(p, q) == p[1] * q[2] < q[1] * p[2]
FracAdd(p, q) == Frac(p[1] * q[2] + q[1] * p[2], p[2] * q[2])
FracSub(p, q) == Frac(p[1] * q[2] - q[1] * p[2], p[2] * q[2])
FracMul(p, q) == Frac(p[1] * q[1], p[2] * q[2])
FracDiv(p, q) == Frac(p[1] * q[2], p[2] * q[1])

(***************************************************************************)
(* PERCLOSAnalyzer                                                         *)
(***************************************************************************)
\* ear_threshold=0.21, in hundredths
ear_threshold == 21

perclos_warning_threshold == Frac(15, 100)
perclos_danger_threshold == Frac(40, 100)

\* EAR values a frame may produce: below ear_threshold (0.10) and exactly at it
EarValues == {10, ear_threshold}

States == {"Atento", "Somnoliento", "Microsueno"}

\* Evict with the loop turned into a single test: at most one sample leaves
EvictOnce(h, cutoff_time) ==
    IF h # <<>> /\ h[1][1] < cutoff_time THEN Tail(h) ELSE h

\* Evict with the comparison made inclusive: a sample at the cutoff leaves too
RECURSIVE EvictInclusive(_, _)
EvictInclusive(h, cutoff_time) ==
    IF h # <<>> /\ h[1][1] <= cutoff_time
    THEN EvictInclusive(Tail(h), cutoff_time)
    ELSE h

\* the while loop of add_ear_measurement: popleft while the front is too old
RECURSIVE Evict(_, _)
Evict(h, cutoff_time) ==
    IF h # <<>> /\ h[1][1] < cutoff_time
    THEN Evict(Tail(h), cutoff_time)
    ELSE h

\* the deque after add_ear_measurement(ear_value) with time.time() = current_time
AddedHistory(h, ear_value, current_time, window) ==
    Evict(Append(h, <<current_time, ear_value>>), current_time - window)

\* ClosedCount with the comparison made inclusive
ClosedCountInclusive(h) == Cardinality({i \in DOMAIN h : h[i][2] <= ear_threshold})

\* closed_count / total_count of calculate_perclos
ClosedCount(h) == Cardinality({i \in DOMAIN h : h[i][2] < ear_threshold})

Perclos(h) == IF Len(h) > 0 THEN Frac(ClosedCount(h), Len(h)) ELSE Zero

\* UpdateState with the warning test made before the danger test
UpdateStateWarningFirst(p) ==
    IF FracGeq(p, perclos_warning_threshold) THEN "Somnoliento"
    ELSE IF FracGeq(p, perclos_danger_threshold) THEN "Microsueno"
    ELSE "Atento"

\* UpdateState with an exclusive warning boundary
UpdateStateWarningExclusive(p) ==
    IF FracGeq(p, perclos_danger_threshold) THEN "Microsueno"
    ELSE IF ~FracGeq(perclos_warning_threshold, p) THEN "Somnoliento"
    ELSE "Atento"

\* UpdateState with an exclusive danger boundary
UpdateStateDangerExclusive(p) ==
    IF ~FracGeq(perclos_danger_threshold, p) THEN "Microsueno"
    ELSE IF FracGeq(p, perclos_warning_threshold) THEN "Somnoliento"
    ELSE "Atento"

\* _update_state: the state for a given current_perclos
UpdateState(p) ==
    IF FracGeq(p, perclos_danger_threshold) THEN "Microsueno"
    ELSE IF FracGeq(p, perclos_warning_threshold) THEN "Somnoliento"
    ELSE "Atento"

\* the dict get_state() returns
get_state ==
    [state |-> current_state,
     perclos |-> current_perclos,
     perclos_percentage |-> FracMul(current_perclos, <<100, 1>>),
     is_warning |-> FracGeq(current_perclos, perclos_warning_threshold),
     is_danger |-> FracGeq(current_perclos, perclos_danger_threshold),
     samples_in_window |-> Len(ear_history),
     window_seconds |-> window_seconds]

\* PERCLOSAnalyzer(window_seconds=w)
AnalyzerInit ==
    /\ window_seconds \in 1..MaxWindow
    /\ ear_history = <<>>
    /\ current_perclos = Zero
    /\ current_state = "Atento"
    /\ now = 0
    /\ last_op = "__init__"
    /\ ret = None
    /\ popped = 0

\* add_ear_measurement that also refreshes the cached reading
add_ear_measurement_refreshing ==
    \E ear_value \in EarValues, current_time \in now..MaxTime :
        LET h == AddedHistory(ear_history, ear_value, current_time, window_seconds)
        IN  /\ Len(h) <= MaxHistory
            /\ now' = current_time
            /\ ear_history' = h
            /\ last_op' = "add_ear_measurement"
            /\ ret' = None
            /\ popped' = Len(ear_history) + 1 - Len(h)
            /\ current_perclos' = Perclos(h)
            /\ current_state' = UpdateState(current_perclos')
            /\ UNCHANGED window_seconds

\* time.time() is read as a non-decreasing clock: current_time >= now
add_ear_measurement ==
    \E ear_value \in EarValues, current_time \in now..MaxTime :
        LET h == AddedHistory(ear_history, ear_value, current_time, window_seconds)
        IN  /\ Len(h) <= MaxHistory
            /\ now' = current_time
            /\ ear_history' = h
            /\ last_op' = "add_ear_measurement"
            /\ ret' = None
            /\ popped' = Len(ear_history) + 1 - Len(h)
            /\ UNCHANGED <<window_seconds, current_perclos, current_state>>

\* calculate_perclos that drops the oldest sample it has counted
calculate_perclos_consuming ==
    /\ last_op' = "calculate_perclos"
    /\ IF Len(ear_history) < 2
       THEN /\ ret' = Zero
            /\ UNCHANGED <<current_perclos, current_state, ear_history>>
       ELSE /\ current_perclos' = Perclos(ear_history)
            /\ current_state' = UpdateState(current_perclos')
            /\ ret' = current_perclos'
            /\ ear_history' = Tail(ear_history)
    /\ popped' = 0
    /\ UNCHANGED <<window_seconds, now>>

\* calculate_perclos that hands back the cached value when history is short
calculate_perclos_cached ==
    /\ last_op' = "calculate_perclos"
    /\ IF Len(ear_history) < 2
       THEN /\ ret' = current_perclos
            /\ UNCHANGED <<current_perclos, current_state>>
       ELSE /\ current_perclos' = Perclos(ear_history)
            /\ current_state' = UpdateState(current_perclos')
            /\ ret' = current_perclos'
    /\ popped' = 0
    /\ UNCHANGED <<window_seconds, ear_history, now>>

calculate_perclos ==
    /\ last_op' = "calculate_perclos"
    /\ IF Len(ear_history) < 2
       THEN /\ ret' = Zero
            /\ UNCHANGED <<current_perclos, current_state>>
       ELSE /\ current_perclos' = Perclos(ear_history)
            /\ current_state' = UpdateState(current_perclos')
            /\ ret' = current_perclos'
    /\ popped' = 0
    /\ UNCHANGED <<window_seconds, ear_history, now>>

get_state_call ==
    /\ last_op' = "get_state"
    /\ ret' = get_state
    /\ popped' = 0
    /\ UNCHANGED <<window_seconds, ear_history, current_perclos, current_state, now>>

\* reset that forgets to restore the cached state
reset_keeping_state ==
    /\ ear_history' = <<>>
    /\ current_perclos' = Zero
    /\ last_op' = "reset"
    /\ ret' = None
    /\ popped' = 0
    /\ UNCHANGED <<window_seconds, now, current_state>>

reset ==
    /\ ear_history' = <<>>
    /\ current_perclos' = Zero
    /\ current_state' = "Atento"
    /\ last_op' = "reset"
    /\ ret' = None
    /\ popped' = 0
    /\ UNCHANGED <<window_seconds, now>>

(***************************************************************************)
(* FaceAnalysis and DrowsinessDetector                                     *)
(*                                                                         *)
(* A landmark list is [len, at]: its length and the points at the eye      *)
(* indices it covers, in integer grid units.  The faces fed in are built   *)
(* from an eye shape <<A, B, C>> per eye: the two lid openings and the     *)
(* corner-to-corner width, laid out along the axes so that every distance  *)
(* is a whole number.                                                      *)
(***************************************************************************)
\* ear_closed_threshold: float = 0.10
ear_closed_threshold == Frac(10, 100)

\* smoothing factors a FaceAnalysis may be built with (default 0.3)
Alphas == {Frac(3, 10), Frac(1, 2), Frac(1, 1)}

EyeShapes == {<<0, 0, 0>>, <<0, 1, 10>>, <<1, 1, 10>>, <<3, 3, 10>>}

FacePoints(l, r) ==
    (33 :> <<0, 0>>) @@ (133 :> <<l[3], 0>>) @@
    (160 :> <<1, l[1]>>) @@ (144 :> <<1, 0>>) @@
    (158 :> <<2, l[2]>>) @@ (153 :> <<2, 0>>) @@
    (263 :> <<20 + r[3], 0>>) @@ (362 :> <<20, 0>>) @@
    (387 :> <<21, r[1]>>) @@ (373 :> <<21, 0>>) @@
    (385 :> <<22, r[2]>>) @@ (380 :> <<22, 0>>)

Landmarks(n, l, r) ==
    LET full == FacePoints(l, r)
    IN  [len |-> n, at |-> [i \in {j \in DOMAIN full : j < n} |-> full[i]]]

\* landmark lists a detector may yield: one point too short, and just long enough
LandmarkLists == {Landmarks(n, l, r) : n \in {387, 388}, l \in EyeShapes, r \in EyeShapes}

\* np.sqrt of a perfect square
Sqrt(sq) == CHOOSE d \in 0..sq : d * d = sq

\* _euclidean_distance
EuclideanDistance(p1, p2) ==
    Sqrt((p1[1] - p2[1]) * (p1[1] - p2[1]) + (p1[2] - p2[2]) * (p1[2] - p2[2]))

\* _calculate_ear
CalculateEar(pts, left) ==
    LET p1_idx == IF left THEN 33 ELSE 263
        p4_idx == IF left THEN 133 ELSE 362
        p2_idx == IF left THEN 160 ELSE 387
        p6_idx == IF left THEN 144 ELSE 373
        p3_idx == IF left THEN 158 ELSE 385
        p5_idx == IF left THEN 153 ELSE 380
        vertical_1 == EuclideanDistance(pts.at[p2_idx], pts.at[p6_idx])
        vertical_2 == EuclideanDistance(pts.at[p3_idx], pts.at[p5_idx])
        horizontal == EuclideanDistance(pts.at[p1_idx], pts.at[p4_idx])
    IN  IF horizontal > 0
        THEN Frac(vertical_1 + vertical_2, 2 * horizontal)
        ELSE Zero

\* avg_ear = (left_ear + right_ear) / 2.0
AvgEar(pts) ==
    FracDiv(FracAdd(CalculateEar(pts, TRUE), CalculateEar(pts, FALSE)), <<2, 1>>)

\* Smooth with the average started from 0.0 instead of the first sample
SmoothFromZero(ema, alpha, avg_ear) ==
    LET start == IF ema = Unset THEN Zero ELSE ema
    IN  FracAdd(start, FracMul(alpha, FracSub(avg_ear, start)))

\* Smooth with alpha weighing the stored value instead of the new sample
SmoothWeightOnOld(ema, alpha, avg_ear) ==
    IF ema = Unset
    THEN avg_ear
    ELSE FracAdd(avg_ear, FracMul(alpha, FracSub(ema, avg_ear)))

\* the EMA step of update: the new ear_avg_ema
Smooth(ema, alpha, avg_ear) ==
    IF ema = Unset
    THEN avg_ear
    ELSE FracAdd(ema, FracMul(alpha, FracSub(avg_ear, ema)))

\* AnalysisResult with eyes_closed true at the threshold itself
AnalysisResultInclusive(pts, ear_smoothed, inference_time) ==
    [ear_left |-> CalculateEar(pts, TRUE),
     ear_right |-> CalculateEar(pts, FALSE),
     ear_average |-> ear_smoothed,
     eyes_closed |-> FracGeq(ear_closed_threshold, ear_smoothed),
     inference_time_ms |-> inference_time]

\* the AnalysisResult update builds once the EMA is ear_smoothed
AnalysisResult(pts, ear_smoothed, inference_time) ==
    [ear_left |-> CalculateEar(pts, TRUE),
     ear_right |-> CalculateEar(pts, FALSE),
     ear_average |-> ear_smoothed,
     eyes_closed |-> FracLt(ear_smoothed, ear_closed_threshold),
     inference_time_ms |-> inference_time]

\* FaceAnalysis() as built by __init__, with the default alpha
FaceIdle ==
    /\ ear_smoothing_alpha = Frac(3, 10)
    /\ ear_avg_ema = Unset
    /\ last_call = None
    /\ points = Nothing
    /\ result = Nothing
    /\ prev_ema = Unset
    /\ calls = 0

\* FaceAnalysis(ear_smoothing_alpha=alpha)
FaceInit ==
    /\ ear_smoothing_alpha \in Alphas
    /\ ear_avg_ema = Unset
    /\ last_call = None
    /\ points = Nothing
    /\ result = Nothing
    /\ prev_ema = Unset
    /\ calls = 0

\* the body of FaceAnalysis.update(pts) run on an EMA that stands at ema
UpdateFrom(pts, ema) ==
    IF pts.len <= 387
    THEN /\ result' = Nothing
         /\ ear_avg_ema' = ema
    ELSE \E inference_time \in 0..MaxInferenceMs :
            /\ ear_avg_ema' = Smooth(ema, ear_smoothing_alpha, AvgEar(pts))
            /\ result' = AnalysisResult(pts, ear_avg_ema', inference_time)

\* FaceAnalysis.update(points)
update ==
    \E pts \in LandmarkLists :
        /\ calls < MaxCalls
        /\ calls' = calls + 1
        /\ last_call' = "update"
        /\ points' = pts
        /\ prev_ema' = ear_avg_ema
        /\ UpdateFrom(pts, ear_avg_ema)
        /\ UNCHANGED ear_smoothing_alpha

\* detect without line 196: the EMA carries over from the previous image
detect_without_reset ==
    /\ calls < MaxCalls
    /\ calls' = calls + 1
    /\ last_call' = "detect"
    /\ prev_ema' = ear_avg_ema
    /\ \/ /\ points' = Nothing
          /\ result' = Nothing
          /\ UNCHANGED ear_avg_ema
       \/ \E pts \in LandmarkLists :
             /\ points' = pts
             /\ UpdateFrom(pts, ear_avg_ema)
    /\ UNCHANGED ear_smoothing_alpha

\* DrowsinessDetector.detect(image_path): the image is unreadable, shows no
\* face, or yields a landmark list
detect ==
    /\ calls < MaxCalls
    /\ calls' = calls + 1
    /\ last_call' = "detect"
    /\ prev_ema' = ear_avg_ema
    /\ \/ /\ points' = Nothing
          /\ result' = Nothing
          /\ UNCHANGED ear_avg_ema
       \/ \E pts \in LandmarkLists :
             /\ points' = pts
             /\ UpdateFrom(pts, Unset)
    /\ UNCHANGED ear_smoothing_alpha

(***************************************************************************)
(* ModelEvaluator                                                          *)
(*                                                                         *)
(* An image of the dataset is what the landmarker yields for it: Nothing   *)
(* (unreadable, or no face) or a landmark list.  A label is TRUE for       *)
(* Drowsy, FALSE for Non Drowsy.                                           *)
(***************************************************************************)
\* no face; landmarks one point short; closed eyes (EAR 0.05); open eyes (EAR 0.3)
EvalShots ==
    {Nothing,
     Landmarks(387, <<3, 3, 10>>, <<3, 3, 10>>),
     Landmarks(388, <<0, 1, 10>>, <<0, 1, 10>>),
     Landmarks(388, <<3, 3, 10>>, <<3, 3, 10>>)}

SeqsUpTo(S, n) == UNION {[1..k -> S] : k \in 0..n}

\* the contents of the Drowsy/ and Non Drowsy/ directories, n images at most
Datasets(n) ==
    {ds \in [drowsy : SeqsUpTo(EvalShots, n), non_drowsy : SeqsUpTo(EvalShots, n)] :
        Len(ds.drowsy) + Len(ds.non_drowsy) <= n}

\* self.results as __init__ leaves it
NoResults ==
    [true_labels |-> <<>>, predicted_labels |-> <<>>,
     inference_times |-> <<>>, ear_values |-> <<>>]

\* no evaluator at work
EvalIdle ==
    /\ dataset = [drowsy |-> <<>>, non_drowsy |-> <<>>]
    /\ image_paths = <<>>
    /\ true_labels = <<>>
    /\ image_index = 0
    /\ predicted_labels = <<>>
    /\ inference_times = <<>>
    /\ ear_values = <<>>
    /\ failed_count = 0
    /\ results = NoResults
    /\ detector = "none"
    /\ pc = "idle"
    /\ stdout_failed = None
    /\ first_run = Nothing
    /\ ear_by_class = Nothing

\* ModelEvaluator(dataset_path, model_path) over a dataset of n images at most
EvalInit(n) ==
    /\ dataset \in Datasets(n)
    /\ image_paths = <<>>
    /\ true_labels = <<>>
    /\ image_index = 0
    /\ predicted_labels = <<>>
    /\ inference_times = <<>>
    /\ ear_values = <<>>
    /\ failed_count = 0
    /\ results = NoResults
    /\ detector = "none"
    /\ pc = "idle"
    /\ stdout_failed = None
    /\ first_run = Nothing
    /\ ear_by_class = Nothing

RECURSIVE SumSeq(_)
SumSeq(seq) == IF seq = <<>> THEN 0 ELSE Head(seq) + SumSeq(Tail(seq))

Pairs(y_true, y_pred, t, p) ==
    Cardinality({k \in DOMAIN y_true : y_true[k] = t /\ y_pred[k] = p})

\* accuracy_score
AccuracyScore(y_true, y_pred) ==
    Frac(Cardinality({k \in DOMAIN y_true : y_true[k] = y_pred[k]}), Len(y_true))

\* PrecisionScore with zero_division=1
PrecisionScoreOne(y_true, y_pred) ==
    LET tp == Pairs(y_true, y_pred, TRUE, TRUE)
        fp == Pairs(y_true, y_pred, FALSE, TRUE)
    IN  IF tp + fp = 0 THEN <<1, 1>> ELSE Frac(tp, tp + fp)

\* precision_score(y_true, y_pred, zero_division=0), positive label True
PrecisionScore(y_true, y_pred) ==
    LET tp == Pairs(y_true, y_pred, TRUE, TRUE)
        fp == Pairs(y_true, y_pred, FALSE, TRUE)
    IN  IF tp + fp = 0 THEN Zero ELSE Frac(tp, tp + fp)

\* recall_score(y_true, y_pred, zero_division=0)
RecallScore(y_true, y_pred) ==
    LET tp == Pairs(y_true, y_pred, TRUE, TRUE)
        fn == Pairs(y_true, y_pred, TRUE, FALSE)
    IN  IF tp + fn = 0 THEN Zero ELSE Frac(tp, tp + fn)

\* f1_score(y_true, y_pred, zero_division=0)
F1Score(y_true, y_pred) ==
    LET tp == Pairs(y_true, y_pred, TRUE, TRUE)
        fp == Pairs(y_true, y_pred, FALSE, TRUE)
        fn == Pairs(y_true, y_pred, TRUE, FALSE)
    IN  IF 2 * tp + fp + fn = 0 THEN Zero ELSE Frac(2 * tp, 2 * tp + fp + fn)

\* confusion_matrix(y_true, y_pred): one row and one column per label that
\* occurs in y_true or y_pred, in sorted order (False before True)
ConfusionMatrix(y_true, y_pred) ==
    LET present == {y_true[k] : k \in DOMAIN y_true} \cup {y_pred[k] : k \in DOMAIN y_pred}
        labels == IF present = {FALSE, TRUE} THEN <<FALSE, TRUE>>
                  ELSE IF present = {TRUE} THEN <<TRUE>>
                  ELSE <<FALSE>>
    IN  [r \in DOMAIN labels |->
            [c \in DOMAIN labels |-> Pairs(y_true, y_pred, labels[r], labels[c])]]

\* np.mean
Mean(times) == Frac(SumSeq(times), Len(times))

\* np.std squared: the population variance (the deviation is kept squared)
Variance(times) ==
    LET n == Len(times)
        total == SumSeq(times)
        sq == [k \in DOMAIN times |-> (n * times[k] - total) * (n * times[k] - total)]
    IN  Frac(SumSeq(sq), n * n * n)

Min(times) == CHOOSE x \in {times[k] : k \in DOMAIN times} :
                    \A k \in DOMAIN times : x <= times[k]
Max(times) == CHOOSE x \in {times[k] : k \in DOMAIN times} :
                    \A k \in DOMAIN times : x >= times[k]

\* the record _calculate_metrics stores in self.results['metrics'];
\* std_inference_time_ms holds the square of the deviation, or -1
Metrics(y_true, y_pred, times) ==
    [accuracy |-> AccuracyScore(y_true, y_pred),
     precision |-> PrecisionScore(y_true, y_pred),
     recall |-> RecallScore(y_true, y_pred),
     f1_score |-> F1Score(y_true, y_pred),
     confusion_matrix |-> ConfusionMatrix(y_true, y_pred),
     avg_inference_time_ms |-> IF times # <<>> THEN Mean(times) ELSE <<-1, 1>>,
     std_inference_time_ms |-> IF times # <<>> THEN Variance(times) ELSE <<-1, 1>>,
     min_inference_time_ms |-> IF times # <<>> THEN <<Min(times), 1>> ELSE <<-1, 1>>,
     max_inference_time_ms |-> IF times # <<>> THEN <<Max(times), 1>> ELSE <<-1, 1>>]

\* self.detector.detect(image) inside evaluate()
DetectOn(image) ==
    /\ calls' = calls + 1
    /\ last_call' = "detect"
    /\ prev_ema' = ear_avg_ema
    /\ points' = image
    /\ IF image = Nothing
       THEN /\ result' = Nothing
            /\ UNCHANGED ear_avg_ema
       ELSE UpdateFrom(image, Unset)
    /\ UNCHANGED ear_smoothing_alpha

\* evaluate(), lines 276-286, with the lists of an earlier run left in place
evaluate_begin_keeping_lists ==
    /\ pc = "idle"
    /\ image_paths' = dataset.drowsy \o dataset.non_drowsy
    /\ true_labels' = [k \in 1..Len(dataset.drowsy) |-> TRUE]
                        \o [k \in 1..Len(dataset.non_drowsy) |-> FALSE]
    /\ detector' = "open"
    /\ ear_smoothing_alpha' = Frac(3, 10)
    /\ ear_avg_ema' = Unset
    /\ last_call' = None
    /\ points' = Nothing
    /\ result' = Nothing
    /\ prev_ema' = Unset
    /\ calls' = 0
    /\ image_index' = 0
    /\ pc' = "loop"
    /\ UNCHANGED <<dataset, results, stdout_failed, first_run, ear_by_class,
                   predicted_labels,
                   inference_times, ear_values, failed_count>>

\* evaluate(), lines 276-286: load_dataset, a new DrowsinessDetector (and with
\* it a new FaceAnalysis), empty lists
evaluate_begin ==
    /\ pc = "idle"
    /\ image_paths' = dataset.drowsy \o dataset.non_drowsy
    /\ true_labels' = [k \in 1..Len(dataset.drowsy) |-> TRUE]
                        \o [k \in 1..Len(dataset.non_drowsy) |-> FALSE]
    /\ detector' = "open"
    /\ ear_smoothing_alpha' = Frac(3, 10)
    /\ ear_avg_ema' = Unset
    /\ last_call' = None
    /\ points' = Nothing
    /\ result' = Nothing
    /\ prev_ema' = Unset
    /\ calls' = 0
    /\ predicted_labels' = <<>>
    /\ inference_times' = <<>>
    /\ ear_values' = <<>>
    /\ failed_count' = 0
    /\ image_index' = 0
    /\ pc' = "loop"
    /\ UNCHANGED <<dataset, results, stdout_failed, first_run, ear_by_class>>

\* RecordFailed that counts the failure but appends no prediction
RecordFailedWithoutPrediction ==
    /\ failed_count' = failed_count + 1
    /\ UNCHANGED <<predicted_labels, inference_times, ear_values>>

\* RecordFailed that appends the default prediction but does not count it
RecordFailedUncounted ==
    /\ predicted_labels' = Append(predicted_labels, FALSE)
    /\ UNCHANGED <<failed_count, inference_times, ear_values>>

\* lines 294-297: the detection failed
RecordFailed ==
    /\ predicted_labels' = Append(predicted_labels, FALSE)
    /\ failed_count' = failed_count + 1
    /\ UNCHANGED <<inference_times, ear_values>>

\* lines 298-301: the detection gave a result
RecordResult ==
    /\ predicted_labels' = Append(predicted_labels, result'.eyes_closed)
    /\ inference_times' = Append(inference_times, result'.inference_time_ms)
    /\ ear_values' = Append(ear_values, result'.ear_average)
    /\ UNCHANGED failed_count

\* one turn of the loop of evaluate(), lines 288-301
evaluate_image ==
    /\ pc = "loop"
    /\ image_index < Len(image_paths)
    /\ DetectOn(image_paths[image_index + 1])
    /\ IF result' = Nothing THEN RecordFailed ELSE RecordResult
    /\ image_index' = image_index + 1
    /\ UNCHANGED <<dataset, image_paths, true_labels, results, detector, pc,
                   stdout_failed, first_run, ear_by_class>>

\* self.results once lines 304-307 have run
SavedResults ==
    [true_labels |-> true_labels, predicted_labels |-> predicted_labels,
     inference_times |-> inference_times, ear_values |-> ear_values]

WithMetrics(saved, metrics) ==
    [true_labels |-> saved.true_labels, predicted_labels |-> saved.predicted_labels,
     inference_times |-> saved.inference_times, ear_values |-> saved.ear_values,
     metrics |-> metrics]

\* the rest of evaluate(), lines 303-315, _calculate_metrics included:
\*  - line 310 divides by len(image_paths): ZeroDivisionError on no images
\*  - the sklearn scores reject y_true and y_pred of different lengths
\*  - line 372 reads cm[0,1]: IndexError when the matrix is 1x1
\*  - only a run that gets past all of these closes the detector
evaluate_finish ==
    /\ pc = "loop"
    /\ image_index = Len(image_paths)
    /\ IF Len(image_paths) = 0
       THEN /\ results' = SavedResults
            /\ pc' = "ZeroDivisionError"
            /\ UNCHANGED <<stdout_failed, detector>>
       ELSE /\ stdout_failed' = failed_count
            /\ IF Len(true_labels) # Len(predicted_labels)
               THEN /\ results' = SavedResults
                    /\ pc' = "ValueError"
                    /\ UNCHANGED detector
               ELSE LET metrics == Metrics(true_labels, predicted_labels, inference_times)
                    IN  /\ results' = WithMetrics(SavedResults, metrics)
                        /\ IF Len(metrics.confusion_matrix) = 2
                           THEN /\ pc' = "done"
                                /\ detector' = "closed"
                           ELSE /\ pc' = "IndexError"
                                /\ UNCHANGED detector
    /\ UNCHANGED <<dataset, image_paths, true_labels, image_index, predicted_labels,
                   inference_times, ear_values, failed_count, first_run,
                   ear_by_class>>
    /\ UNCHANGED faceVars

Finished == pc \in {"done", "ZeroDivisionError", "ValueError", "IndexError"}

HasMetrics(r) == "metrics" \in DOMAIN r

\* a second evaluator is built for the same dataset once the first run ended
rerun ==
    /\ Finished
    /\ first_run = Nothing
    /\ first_run' = [outcome |-> pc,
                     metrics |-> IF HasMetrics(results) THEN results.metrics ELSE Nothing]
    /\ results' = NoResults
    /\ detector' = "none"
    /\ pc' = "idle"
    /\ stdout_failed' = None
    /\ ear_by_class' = Nothing
    /\ UNCHANGED <<dataset, image_paths, true_labels, image_index, predicted_labels,
                   inference_times, ear_values, failed_count>>
    /\ UNCHANGED faceVars

\* values[mask]: the entries of values at the positions where mask holds
RECURSIVE Masked(_, _)
Masked(values, mask) ==
    IF values = <<>> THEN <<>>
    ELSE (IF Head(mask) THEN <<Head(values)>> ELSE <<>>)
            \o Masked(Tail(values), Tail(mask))

\* _create_ear_distribution_page, lines 686-699, reached through
\* generate_pdf_report once evaluate() has returned: nothing to draw without
\* EAR values; ear_values[y_true == 1] and ear_values[y_true == 0] are numpy
\* boolean-mask selections, an IndexError when the mask and the array differ
\* in length
create_ear_distribution_page ==
    /\ pc = "done"
    /\ ear_by_class = Nothing
    /\ ear_by_class' =
            IF results.ear_values = <<>> THEN [skipped |-> TRUE]
            ELSE IF Len(results.ear_values) # Len(results.true_labels)
                 THEN [raises |-> "IndexError"]
                 ELSE [ear_drowsy |-> Masked(results.ear_values, results.true_labels),
                       ear_alert |-> Masked(results.ear_values,
                                            [k \in DOMAIN results.true_labels |->
                                                ~results.true_labels[k]])]
    /\ UNCHANGED <<dataset, image_paths, true_labels, image_index, predicted_labels,
                   inference_times, ear_values, failed_count, results, detector,
                   pc, stdout_failed, first_run>>
    /\ UNCHANGED faceVars

(***************************************************************************)
(* FaceParser and CameraHandler.run                                        *)
(*                                                                         *)
(* A landmark coordinate c of the grid stands for the normalized value     *)
(* c / Grid.  A float that numpy may leave infinite or undefined is a pair *)
(* <<n, d>> as before, with Inf == <<1, 0>> and NaN == <<0, 0>>.           *)
(***************************************************************************)
Grid == 40

\* self.process_width = 640
process_width == 640

LEFT_EYE == <<33, 160, 158, 133, 153, 144>>
RIGHT_EYE == <<362, 385, 387, 263, 373, 380>>

Inf == <<1, 0>>
NaN == <<0, 0>>

\* numpy float64 division: x / 0 is inf (nan when x is 0), with a warning only
NumpyDiv(n, d) ==
    IF d = 0 THEN (IF n = 0 THEN NaN ELSE Inf) ELSE Frac(n, d)

\* (ear_l + ear_r) / 2.0 on floats that may be inf or nan
HalfSum(a, b) ==
    IF a = NaN \/ b = NaN THEN NaN
    ELSE IF a = Inf \/ b = Inf THEN Inf
    ELSE FracDiv(FracAdd(a, b), <<2, 1>>)

\* (int(landmarks[i].x * w), int(landmarks[i].y * h))
Pixel(point, w, h) == <<(point[1] * w) \div Grid, (point[2] * h) \div Grid>>

\* eye_aspect_ratio(landmarks, indices, w, h): landmarks[i] raises IndexError
\* past the end of the list; (A + B) / C is a numpy division
eye_aspect_ratio(landmarks, indices, w, h) ==
    IF \E k \in DOMAIN indices : indices[k] >= landmarks.len
    THEN [raises |-> "IndexError"]
    ELSE LET pts == [k \in DOMAIN indices |-> Pixel(landmarks.at[indices[k]], w, h)]
             A == EuclideanDistance(pts[2], pts[6])
             B == EuclideanDistance(pts[3], pts[5])
             C == EuclideanDistance(pts[1], pts[4])
         IN  [ear |-> NumpyDiv(A + B, C)]

\* <<width, height>> of the frames a camera may deliver; the last one is the
\* only kind whose resized copy has exactly two rows
FrameSizes == {<<640, 480>>, <<1280, 720>>, <<320, 240>>, <<640, 2>>}

\* nothing read yet
CameraIdle ==
    /\ run_pc = "idle"
    /\ frame = Nothing
    /\ eyes = Nothing
    /\ returned = Nothing
    /\ estado = Nothing

\* run() up to the while loop, lines 33-55: the camera is open, a FaceParser
\* and a PERCLOSAnalyzer(window_seconds=30, ear_threshold=0.21) are built
CameraInit ==
    /\ run_pc = "read"
    /\ frame = Nothing
    /\ eyes = Nothing
    /\ returned = Nothing
    /\ estado = Nothing
    /\ window_seconds = 30
    /\ ear_history = <<>>
    /\ current_perclos = Zero
    /\ current_state = "Atento"
    /\ now = 0
    /\ last_op = "__init__"
    /\ ret = None
    /\ popped = 0

\* lines 55-68: cap.read(), flip, resize to process_width columns; the face
\* mesh will find no face or some landmark list in the frame
read_frame ==
    /\ run_pc = "read"
    /\ \/ /\ run_pc' = "released"
          /\ UNCHANGED frame
       \/ \E size \in FrameSizes, lm \in LandmarkLists \cup {Nothing} :
             /\ frame' = [landmarks |-> lm, width |-> size[1], height |-> size[2],
                          process_height |-> (size[2] * process_width) \div size[1]]
             /\ run_pc' = "process_frame"
    /\ eyes' = Nothing
    /\ returned' = Nothing
    /\ estado' = Nothing
    /\ UNCHANGED analyzerVars

\* FaceParser.process_frame(rgb_frame, height, width): dibujar_ojos and
\* eye_aspect_ratio index the landmarks; the method returns the frame alone
process_frame ==
    /\ run_pc = "process_frame"
    /\ IF frame.landmarks = Nothing
       THEN /\ returned' = [rows |-> frame.process_height]
            /\ run_pc' = "unpack"
            /\ UNCHANGED eyes
       ELSE LET lm == frame.landmarks
                ear_l == eye_aspect_ratio(lm, LEFT_EYE, frame.width, frame.height)
                ear_r == eye_aspect_ratio(lm, RIGHT_EYE, frame.width, frame.height)
            IN  IF "raises" \in DOMAIN ear_l \/ "raises" \in DOMAIN ear_r
                THEN /\ run_pc' = "IndexError"
                     /\ UNCHANGED <<eyes, returned>>
                ELSE /\ eyes' = [ear_l |-> ear_l.ear, ear_r |-> ear_r.ear,
                                 ear |-> HalfSum(ear_l.ear, ear_r.ear)]
                     /\ returned' = [rows |-> frame.process_height]
                     /\ run_pc' = "unpack"
    /\ UNCHANGED <<frame, estado>>
    /\ UNCHANGED analyzerVars

\* lines 71-112: `process_frame, ear = <the returned image>` unpacks the rows
\* of the image, so it raises ValueError unless there are exactly two; with
\* two rows, ear is a row of pixels: it is added to the window;
\* calculate_perclos returns 0.0 on a window of one sample (on a longer one
\* the comparison of a pixel row with the threshold has no truth value:
\* ValueError); get_state gives the snapshot; cv2.cvtColor then rejects the
\* other row, which is no 3-channel image
unpack_and_analyze ==
    /\ run_pc = "unpack"
    /\ IF returned.rows # 2
       THEN /\ run_pc' = "ValueError"
            /\ UNCHANGED <<analyzerVars, estado>>
       ELSE \E current_time \in now..MaxTime :
              LET h == AddedHistory(ear_history, "pixel row", current_time, window_seconds)
              IN  /\ now' = current_time
                  /\ ear_history' = h
                  /\ popped' = Len(ear_history) + 1 - Len(h)
                  /\ UNCHANGED <<window_seconds, current_perclos, current_state>>
                  /\ IF Len(h) < 2
                     THEN /\ estado' = get_state'
                          /\ last_op' = "get_state"
                          /\ ret' = estado'
                          /\ run_pc' = "cv2.error"
                     ELSE /\ last_op' = "calculate_perclos"
                          /\ ret' = None
                          /\ run_pc' = "ValueError"
                          /\ UNCHANGED estado
    /\ UNCHANGED <<frame, eyes, returned>>

(***************************************************************************)
(* The analyzer driven by an arbitrary caller.                             *)
(***************************************************************************)
Init == AnalyzerInit /\ FaceIdle /\ EvalIdle /\ CameraIdle

Next ==
    \/ add_ear_measurement /\ UNCHANGED <<faceVars, evalVars, cameraVars>>
    \/ calculate_perclos /\ UNCHANGED <<faceVars, evalVars, cameraVars>>
    \/ get_state_call /\ UNCHANGED <<faceVars, evalVars, cameraVars>>
    \/ reset /\ UNCHANGED <<faceVars, evalVars, cameraVars>>

Spec == Init /\ [][Next]_vars

(***************************************************************************)
(* The classifier on its own: calculate_perclos applied to a window of     *)
(* total samples of which closed lie below the threshold, all stamped at   *)
(* the same clock tick, for every total up to MaxTotal.                    *)
(***************************************************************************)
FilledWindow(total, closed) ==
    [i \in 1..total |-> <<0, IF i <= closed THEN 10 ELSE ear_threshold>>]

Ratios == {Frac(c, n) : c \in 0..MaxTotal, n \in 1..MaxTotal}

InitClassify ==
    /\ window_seconds \in 1..MaxWindow
    /\ \E total \in 1..MaxTotal, closed \in 0..MaxTotal :
          /\ closed <= total
          /\ ear_history = FilledWindow(total, closed)
    /\ current_perclos = Zero
    /\ current_state = "Atento"
    /\ now = 0
    /\ last_op = "add_ear_measurement"
    /\ ret = None
    /\ popped = 0
    /\ FaceIdle
    /\ EvalIdle
    /\ CameraIdle

NextClassify ==
    \/ calculate_perclos /\ UNCHANGED <<faceVars, evalVars, cameraVars>>
    \/ get_state_call /\ UNCHANGED <<faceVars, evalVars, cameraVars>>

SpecClassify == InitClassify /\ [][NextClassify]_vars

(***************************************************************************)
(* One FaceAnalysis, used directly and through DrowsinessDetector.detect.  *)
(***************************************************************************)
InitFace == AnalyzerInit /\ window_seconds = 1 /\ FaceInit /\ EvalIdle /\ CameraIdle

NextFace ==
    \/ update /\ UNCHANGED <<analyzerVars, evalVars, cameraVars>>
    \/ detect /\ UNCHANGED <<analyzerVars, evalVars, cameraVars>>

SpecFace == InitFace /\ [][NextFace]_vars

(***************************************************************************)
(* The analyzer fed one fixed run of samples, one second apart, with       *)
(* calculate_perclos and get_state called at any point in between.         *)
(***************************************************************************)
\* the EAR values of the run, in hundredths: five closed, then five open
ExampleValues == <<10, 10, 10, 10, 10, 30, 30, 30, 30, 30>>

\* the window of the example, and a shorter one that evicts during the run
ExampleWindows == {5, 10}

\* PERCLOSAnalyzer(window_seconds=w, ear_threshold=0.21)
InitExample ==
    /\ window_seconds \in ExampleWindows
    /\ ear_history = <<>>
    /\ current_perclos = Zero
    /\ current_state = "Atento"
    /\ now = 0
    /\ last_op = "__init__"
    /\ ret = None
    /\ popped = 0
    /\ FaceIdle
    /\ EvalIdle
    /\ CameraIdle

\* add_ear_measurement(ExampleValues[k]) with time.time() = k - 1; `now` is the
\* clock, which reads the number of samples fed so far
add_example_sample ==
    /\ now < Len(ExampleValues)
    /\ LET h == AddedHistory(ear_history, ExampleValues[now + 1], now, window_seconds)
       IN  /\ ear_history' = h
           /\ popped' = Len(ear_history) + 1 - Len(h)
    /\ now' = now + 1
    /\ last_op' = "add_ear_measurement"
    /\ ret' = None
    /\ UNCHANGED <<window_seconds, current_perclos, current_state>>

NextExample ==
    \/ add_example_sample /\ UNCHANGED <<faceVars, evalVars, cameraVars>>
    \/ calculate_perclos /\ UNCHANGED <<faceVars, evalVars, cameraVars>>
    \/ get_state_call /\ UNCHANGED <<faceVars, evalVars, cameraVars>>

SpecExample == InitExample /\ [][NextExample]_vars

(***************************************************************************)
(* One evaluation run over a dataset of MaxImages images at most.          *)
(***************************************************************************)
InitEval ==
    /\ AnalyzerInit /\ window_seconds = 1 /\ FaceIdle /\ EvalInit(MaxImages)
    /\ CameraIdle

NextEval ==
    \/ evaluate_begin /\ UNCHANGED <<analyzerVars, cameraVars>>
    \/ evaluate_image /\ UNCHANGED <<analyzerVars, cameraVars>>
    \/ evaluate_finish /\ UNCHANGED <<analyzerVars, cameraVars>>
    \/ create_ear_distribution_page /\ UNCHANGED <<analyzerVars, cameraVars>>

SpecEval == InitEval /\ [][NextEval]_vars

(***************************************************************************)
(* Two evaluation runs, one after the other, over the same dataset.        *)
(***************************************************************************)
InitRerun ==
    /\ AnalyzerInit /\ window_seconds = 1 /\ FaceIdle /\ EvalInit(MaxRerunImages)
    /\ CameraIdle

NextRerun ==
    \/ evaluate_begin /\ UNCHANGED <<analyzerVars, cameraVars>>
    \/ evaluate_image /\ UNCHANGED <<analyzerVars, cameraVars>>
    \/ evaluate_finish /\ UNCHANGED <<analyzerVars, cameraVars>>
    \/ rerun /\ UNCHANGED <<analyzerVars, cameraVars>>

SpecRerun == InitRerun /\ [][NextRerun]_vars

(***************************************************************************)
(* The capture loop of CameraHandler.run.                                  *)
(***************************************************************************)
InitRealtime == CameraInit /\ FaceIdle /\ EvalIdle

NextRealtime ==
    \/ read_frame /\ UNCHANGED <<faceVars, evalVars>>
    \/ process_frame /\ UNCHANGED <<faceVars, evalVars>>
    \/ unpack_and_analyze /\ UNCHANGED <<faceVars, evalVars>>

SpecRealtime == InitRealtime /\ [][NextRealtime]_vars

(***************************************************************************)
(* Properties of PERCLOSAnalyzer                                           *)
(***************************************************************************)
Timestamp(sample) == sample[1]
Value(sample) == sample[2]
Latest == ear_history[Len(ear_history)]

\* C1 -- eviction invariant: no sample held in ear_history is older than
\* window_seconds relative to the most recently inserted sample.
C1_EvictionInvariant ==
    ear_history # <<>> =>
        \A i \in DOMAIN ear_history :
            Timestamp(ear_history[i]) >= Timestamp(Latest) - window_seconds

\* an add that evicted two samples at once and kept one exactly at the cutoff
C1_Witness ==
    /\ last_op = "add_ear_measurement"
    /\ popped >= 2
    /\ Len(ear_history) >= 2
    /\ Timestamp(ear_history[1]) = now - window_seconds

\* C2 -- as claimed: after calculate_perclos() on a window of fewer than 2
\* samples, get_state() reports perclos = 0.0 and state = "Atento".
C2_ShortWindowReadsDefault ==
    (last_op = "calculate_perclos" /\ Len(ear_history) < 2) =>
        (get_state.perclos = Zero /\ get_state.state = "Atento")

\* C3 -- calculate_perclos() returns a value in [0,1], and exactly 0.0 when
\* fewer than 2 samples are in the window.
C3_ReturnInRange ==
    last_op = "calculate_perclos" =>
        /\ FracGeq(ret, Zero)
        /\ FracGeq(<<1, 1>>, ret)
        /\ Len(ear_history) < 2 => ret = Zero

\* a calculate on a one-sample window whose cached percentage is not zero
C3_Witness ==
    /\ last_op = "calculate_perclos"
    /\ Len(ear_history) = 1
    /\ current_perclos # Zero
    /\ ret = Zero

\* C4 -- with at least 2 samples calculate_perclos() returns
\* closed_count / total_count, closed_count counting the samples strictly
\* below ear_threshold (a sample equal to the threshold is not closed).
C4_ReturnIsClosedRatio ==
    (last_op = "calculate_perclos" /\ Len(ear_history) >= 2) =>
        LET total_count == Len(ear_history)
            open == {i \in DOMAIN ear_history :
                        Value(ear_history[i]) >= ear_threshold}
            closed_count == total_count - Cardinality(open)
        IN  /\ ret[1] * total_count = closed_count * ret[2]
            /\ ret[2] > 0
            /\ current_perclos = ret

\* a calculate over a window holding closed samples and samples at the threshold
C4_Witness ==
    /\ last_op = "calculate_perclos"
    /\ Len(ear_history) = 4
    /\ \E i \in DOMAIN ear_history : Value(ear_history[i]) = ear_threshold
    /\ \E i \in DOMAIN ear_history : Value(ear_history[i]) < ear_threshold
    /\ ret = <<1, 4>>

Severity(state) ==
    CASE state = "Atento" -> 0
      [] state = "Somnoliento" -> 1
      [] state = "Microsueno" -> 2

\* C5 -- the classifier is a monotone step function with inclusive lower
\* boundaries: p >= 0.40 Microsleep, 0.15 <= p < 0.40 Drowsy, p < 0.15
\* Attentive; a larger p never yields a less severe state.
C5_ClassifierStepFunction ==
    (last_op # "add_ear_measurement" /\ Len(ear_history) >= 2) =>
        LET p == current_perclos
        IN  /\ 100 * p[1] >= 40 * p[2] => current_state = "Microsueno"
            /\ (100 * p[1] >= 15 * p[2] /\ 100 * p[1] < 40 * p[2])
                    => current_state = "Somnoliento"
            /\ 100 * p[1] < 15 * p[2] => current_state = "Atento"
            /\ \A q \in Ratios :
                  /\ FracGeq(q, p) => Severity(UpdateState(q)) >= Severity(current_state)
                  /\ FracGeq(p, q) => Severity(UpdateState(q)) <= Severity(current_state)

\* a calculate landing exactly on the warning boundary, 3/20 = 0.15
C5_Witness ==
    /\ last_op = "calculate_perclos"
    /\ current_perclos = <<3, 20>>
    /\ current_state = "Somnoliento"

\* C6 -- add_ear_measurement at time t leaves exactly the previously held
\* samples with timestamp >= t - window_seconds, in their order, followed by
\* the new sample.
C6_AddKeepsExactlyTheWindow ==
    [][last_op' = "add_ear_measurement" =>
        LET cutoff == now' - window_seconds
            InWindow(sample) == Timestamp(sample) >= cutoff
            added == ear_history'[Len(ear_history')]
        IN  /\ ear_history' # <<>>
            /\ Timestamp(added) = now'
            /\ Value(added) \in EarValues
            /\ ear_history' = Append(SelectSeq(ear_history, InWindow), added)
    ]_vars

\* an add that evicted a sample and kept another one exactly at the cutoff
C6_Witness ==
    /\ last_op = "add_ear_measurement"
    /\ popped = 1
    /\ Len(ear_history) = 3
    /\ Timestamp(ear_history[1]) = now - window_seconds
    /\ Timestamp(ear_history[2]) > Timestamp(ear_history[1])

\* get_state() of PERCLOSAnalyzer(window_seconds=w) right after construction
FreshState(w) ==
    [state |-> "Atento",
     perclos |-> Zero,
     perclos_percentage |-> Zero,
     is_warning |-> FALSE,
     is_danger |-> FALSE,
     samples_in_window |-> 0,
     window_seconds |-> w]

\* C7 -- after reset() the window is empty and get_state() reports what a
\* freshly constructed analyzer reports.
C7_ResetRestoresFresh ==
    last_op = "reset" =>
        /\ ear_history = <<>>
        /\ get_state = FreshState(window_seconds)

\* a reset after samples were added over several clock ticks
C7_Witness ==
    /\ last_op = "reset"
    /\ now >= 2

\* C8 -- add_ear_measurement leaves the cached reading alone; the cached
\* percentage and state change only through calculate_perclos or reset.
C8_CachedReadingFrame ==
    [][/\ last_op' = "add_ear_measurement" =>
            UNCHANGED <<current_perclos, current_state>>
       /\ (current_perclos' # current_perclos \/ current_state' # current_state) =>
            last_op' \in {"calculate_perclos", "reset"}
    ]_vars

\* after an add the cached reading differs from what the window now holds
C8_Witness ==
    /\ last_op = "add_ear_measurement"
    /\ Len(ear_history) >= 2
    /\ current_perclos # Zero
    /\ current_perclos # Perclos(ear_history)
    /\ get_state.state = "Microsueno"

Consistent(s) ==
    /\ s.state \in States
    /\ s.state = "Microsueno" <=> s.is_danger
    /\ s.state = "Somnoliento" <=> (s.is_warning /\ ~s.is_danger)
    /\ s.state = "Atento" <=> ~s.is_warning
    /\ s.is_warning <=> 100 * s.perclos[1] >= 15 * s.perclos[2]
    /\ s.is_danger <=> 100 * s.perclos[1] >= 40 * s.perclos[2]
    /\ s.is_danger => s.is_warning
    /\ s.perclos_percentage[1] * s.perclos[2]
            = 100 * s.perclos[1] * s.perclos_percentage[2]
    /\ s.samples_in_window = Len(ear_history)

\* C9 -- every snapshot get_state() returns is internally consistent: state
\* is the classification of perclos, is_warning iff perclos >= 0.15, is_danger
\* iff perclos >= 0.40, perclos_percentage = perclos*100, samples_in_window is
\* the number of samples held.
C9_SnapshotConsistent ==
    /\ Consistent(get_state)
    /\ last_op = "get_state" => (ret = get_state /\ Consistent(ret))

\* a snapshot taken with the percentage exactly on the danger boundary, 2/5
C9_Witness ==
    /\ last_op = "get_state"
    /\ ret.perclos = <<2, 5>>
    /\ ret.state = "Microsueno"
    /\ ret.samples_in_window = 5

(***************************************************************************)
(* Properties of FaceAnalysis                                              *)
(***************************************************************************)
\* C10 -- smoother first-sample law: one update on an unset smoother (a fresh
\* one, or the one detect has just reset) returns ear_average equal to the
\* average EAR of its landmarks, for every alpha and whatever was fed before.
C10_FirstSampleLaw ==
    (result # Nothing /\ (last_call = "detect" \/ prev_ema = Unset)) =>
        /\ result.ear_average = AvgEar(points)
        /\ ear_avg_ema = AvgEar(points)

\* detect on a smoother that held another value, with a proper alpha < 1
C10_Witness ==
    /\ last_call = "detect"
    /\ result # Nothing
    /\ prev_ema # Unset
    /\ prev_ema # result.ear_average
    /\ ear_smoothing_alpha = <<3, 10>>
    /\ result.ear_average = <<3, 10>>

\* what detect returns for an image, told from the image alone: nothing when
\* no landmarks come back or they stop short of index 387, else the average
\* EAR of the image and whether it lies strictly below 0.10
OwnReading(image) ==
    IF image = Nothing THEN Nothing
    ELSE IF image.len < 388 THEN Nothing
    ELSE LET ear == AvgEar(image)
         IN  [ear_average |-> ear, eyes_closed |-> (10 * ear[1] < ear[2])]

Reading(r) ==
    IF r = Nothing THEN Nothing
    ELSE [ear_average |-> r.ear_average, eyes_closed |-> r.eyes_closed]

\* C11 -- no cross-image leakage: what detect returns for an image (smoothed
\* EAR and eyes_closed) is a function of that image alone, whatever was
\* processed before it.
C11_NoCrossImageLeakage ==
    last_call = "detect" => Reading(result) = OwnReading(points)

\* an image with closed eyes detected right after the smoother held an
\* open-eye value, which would have pulled the decision to "open"
C11_Witness ==
    /\ last_call = "detect"
    /\ calls = 3
    /\ prev_ema = <<3, 10>>
    /\ ear_smoothing_alpha = <<1, 2>>
    /\ result # Nothing
    /\ result.eyes_closed

(***************************************************************************)
(* Properties of ModelEvaluator                                            *)
(***************************************************************************)
\* the images, among the first n of the run, for which detect() yields nothing
FailedAmong(n) == {k \in 1..n : OwnReading(image_paths[k]) = Nothing}

Running == pc = "loop" \/ Finished

\* C12: every image for which detect() yields no result gets the prediction
\* False and adds exactly one to failed_count, so failed_count plus the number
\* of recorded inference times is the number of images gone through; once the
\* loop is over the count is printed (line 310) and can be read off the lists
\* saved in self.results.
C12_FailedDetectionsCounted ==
    Running =>
        /\ Len(predicted_labels) = image_index
        /\ \A k \in FailedAmong(image_index) : predicted_labels[k] = FALSE
        /\ failed_count = Cardinality(FailedAmong(image_index))
        /\ failed_count + Len(inference_times) = image_index
        /\ (Finished /\ image_paths # <<>>) =>
                /\ image_index = Len(image_paths)
                /\ stdout_failed = failed_count
                /\ Len(results.predicted_labels) - Len(results.inference_times)
                        = failed_count

C12_Witness ==
    /\ pc = "done"
    /\ Len(image_paths) = 3
    /\ failed_count = 2
    /\ stdout_failed = 2
    /\ image_paths[1] = Nothing
    /\ image_paths[3] = Landmarks(387, <<3, 3, 10>>, <<3, 3, 10>>)

TP == Pairs(true_labels, predicted_labels, TRUE, TRUE)
FP == Pairs(true_labels, predicted_labels, FALSE, TRUE)
FN == Pairs(true_labels, predicted_labels, TRUE, FALSE)
TN == Pairs(true_labels, predicted_labels, FALSE, FALSE)

\* the sum of all cells of a square matrix, and of its diagonal
CellSum(cm) == SumSeq([r \in DOMAIN cm |-> SumSeq(cm[r])])
Trace(cm) == SumSeq([r \in DOMAIN cm |-> cm[r][r]])

\* C13: after evaluate() has gone through a dataset, there is exactly one
\* prediction per image, the cells of the confusion matrix (TP+FP+FN+TN) add up
\* to the number of images, failed detections included, and accuracy is
\* (TP+TN)/total.
C13_ConfusionMatrixConsistent ==
    (Finished /\ image_paths # <<>>) =>
        /\ Len(results.predicted_labels) = Len(image_paths)
        /\ Len(results.true_labels) = Len(image_paths)
        /\ HasMetrics(results)
        /\ TP + FP + FN + TN = Len(image_paths)
        /\ CellSum(results.metrics.confusion_matrix) = Len(image_paths)
        /\ Trace(results.metrics.confusion_matrix) = TP + TN
        /\ results.metrics.accuracy = Frac(TP + TN, Len(image_paths))

C13_Witness ==
    /\ pc = "done"
    /\ Len(image_paths) = 3
    /\ failed_count = 1
    /\ TP = 1
    /\ TN = 1
    /\ FN = 1
    /\ results.metrics.accuracy = <<2, 3>>

\* C14 (as claimed): every evaluation run that computes its metrics produces a
\* 2x2 confusion matrix, rows = true label, columns = predicted label, in the
\* order Non-drowsy, Drowsy, so TN, FP, FN, TP are at [0,0], [0,1], [1,0], [1,1].
C14_MatrixIsTwoByTwo ==
    HasMetrics(results) =>
        LET cm == results.metrics.confusion_matrix
        IN  /\ Len(cm) = 2
            /\ cm = <<<<TN, FP>>, <<FN, TP>>>>

\* C15: precision is 0 when no image is predicted drowsy, recall is 0 when no
\* image is truly drowsy, F1 is 0 when both are 0; otherwise precision is
\* TP/(TP+FP), recall is TP/(TP+FN), F1 is 2*precision*recall/(precision+recall).
\* Every metric is a number.
C15_DefinedZeroMetrics ==
    HasMetrics(results) =>
        LET m == results.metrics
            P == IF TP + FP = 0 THEN Zero ELSE Frac(TP, TP + FP)
            R == IF TP + FN = 0 THEN Zero ELSE Frac(TP, TP + FN)
            F == IF P = Zero /\ R = Zero THEN Zero
                 ELSE FracDiv(FracMul(<<2, 1>>, FracMul(P, R)), FracAdd(P, R))
        IN  /\ m.precision = P
            /\ m.recall = R
            /\ m.f1_score = F
            /\ \A x \in {m.accuracy, m.precision, m.recall, m.f1_score} :
                    x[2] > 0 /\ FracGeq(x, Zero) /\ FracGeq(<<1, 1>>, x)

\* a run with no image predicted drowsy although one is drowsy
C15_Witness ==
    /\ pc = "done"
    /\ TP + FP = 0
    /\ FN = 1
    /\ results.metrics.precision = Zero
    /\ results.metrics.recall = Zero
    /\ results.metrics.f1_score = Zero

\* a run where precision, recall and F1 are all defined and different
C15_WitnessDefined ==
    /\ pc = "done"
    /\ results.metrics.precision = <<1, 2>>
    /\ results.metrics.recall = <<1, 1>>
    /\ results.metrics.f1_score = <<2, 3>>

\* the second run over the dataset has ended
SecondRunFinished == first_run # Nothing /\ Finished

\* what the run that just ended left behind: how it ended, and its metrics
ThisRun ==
    [outcome |-> pc,
     metrics |-> IF HasMetrics(results) THEN results.metrics ELSE Nothing]

\* the classification part of a metrics record
ClassMetrics(m) ==
    IF m = Nothing THEN Nothing
    ELSE [accuracy |-> m.accuracy, precision |-> m.precision, recall |-> m.recall,
          f1_score |-> m.f1_score, confusion_matrix |-> m.confusion_matrix]

\* C16 (as claimed): two runs of the evaluator over the same dataset, with the
\* same landmarks for the same image, yield identical metrics records, the
\* inference-time statistics included.
C16_MetricsReproducible ==
    SecondRunFinished => ThisRun = first_run

\* C16 (amended): two such runs end the same way and yield identical accuracy,
\* precision, recall, F1 and confusion matrix; the inference-time statistics
\* are wall-clock measurements and may differ.
C16_ClassificationReproducible ==
    SecondRunFinished =>
        /\ pc = first_run.outcome
        /\ ClassMetrics(ThisRun.metrics) = ClassMetrics(first_run.metrics)

\* two completed runs whose classification metrics agree and whose mean
\* inference times differ
C16_Witness ==
    /\ SecondRunFinished
    /\ pc = "done"
    /\ first_run.outcome = "done"
    /\ results.metrics.accuracy = first_run.metrics.accuracy
    /\ results.metrics.avg_inference_time_ms # first_run.metrics.avg_inference_time_ms

(***************************************************************************)
(* The worked example of the windowed accumulator                          *)
(***************************************************************************)
\* C19: with window_seconds = 10 and ear_threshold = 0.21, after the ten
\* samples 0.1 (five times), 0.3 (five times) at timestamps 0..9 no sample has
\* been evicted, calculate_perclos() returns 0.5 and get_state().state is
\* "Microsueno".
C19_WorkedExample ==
    (window_seconds = 10 /\ now = Len(ExampleValues)
        /\ last_op = "calculate_perclos") =>
        /\ ear_history = [k \in 1..10 |-> <<k - 1, ExampleValues[k]>>]
        /\ ret = <<1, 2>>
        /\ get_state.state = "Microsueno"
        /\ get_state.perclos = <<1, 2>>
        /\ get_state.samples_in_window = 10

C19_Witness ==
    /\ now = 10
    /\ window_seconds = 10
    /\ Len(ear_history) = 10
    /\ last_op = "calculate_perclos"
    /\ ret = <<1, 2>>
    /\ current_state = "Microsueno"

(***************************************************************************)
(* Properties of the real-time path                                        *)
(***************************************************************************)
\* the face mesh found a face in the frame that was read
FaceFound == frame # Nothing /\ frame.landmarks # Nothing

\* C17 (as claimed, for the real-time extractor): a landmark list that does
\* not reach index 387 makes EAR extraction yield no result and raise nothing.
C17_ShortLandmarksRaiseNothing ==
    (FaceFound /\ frame.landmarks.len < 388) => run_pc # "IndexError"

\* C18 (as claimed, for the real-time extractor): the EAR of each eye is a
\* finite number >= 0.
C18_RealtimeEarIsFinite ==
    eyes # Nothing =>
        \A e \in {eyes.ear_l, eyes.ear_r, eyes.ear} : e[2] > 0 /\ e[1] >= 0

\* C20 (as claimed): a frame in which a face is found goes through the
\* accumulator and the classifier, one sample is added to the window, one
\* state snapshot is produced, and the loop goes on to the next frame.
C20_FaceFrameYieldsOneState ==
    (FaceFound /\ frame.landmarks.len >= 388 /\ run_pc \notin {"process_frame", "unpack"}) =>
        /\ run_pc = "read"
        /\ estado # Nothing
        /\ Len(ear_history) = 1

\* C21 (as claimed): a frame in which no face is found leaves the window, the
\* cached percentage and the cached state as they were, raises nothing, and
\* the loop goes on to the next frame.
C21_NoFaceFrameNoUpdate ==
    (frame # Nothing /\ frame.landmarks = Nothing
        /\ run_pc \notin {"process_frame", "unpack"}) =>
        /\ run_pc = "read"
        /\ ear_history = <<>>
        /\ current_perclos = Zero
        /\ current_state = "Atento"

(***************************************************************************)
(* Properties of the evaluation records                                    *)
(***************************************************************************)
\* the smoothed EAR of every image of the given class that gave a result, in
\* dataset order
RECURSIVE OwnEars(_, _, _)
OwnEars(images, labels, class) ==
    IF images = <<>> THEN <<>>
    ELSE (IF Head(labels) = class /\ OwnReading(Head(images)) # Nothing
          THEN <<OwnReading(Head(images)).ear_average>>
          ELSE <<>>) \o OwnEars(Tail(images), Tail(labels), class)

\* C22 (as claimed): the EAR page partitions the recorded EAR values by true
\* label so that every value lands in the class of the image it was computed
\* from, also when some detections failed.
C22_EarValuesInOwnClass ==
    ear_by_class # Nothing =>
        \/ "skipped" \in DOMAIN ear_by_class
        \/ /\ "ear_drowsy" \in DOMAIN ear_by_class
           /\ ear_by_class.ear_drowsy = OwnEars(image_paths, true_labels, TRUE)
           /\ ear_by_class.ear_alert = OwnEars(image_paths, true_labels, FALSE)

(***************************************************************************)
(* Properties of the smoother across update calls                          *)
(***************************************************************************)
\* C23: an update on a stored value v with new average EAR x stores and
\* returns v + alpha * (x - v); what one call stored is what the next call
\* starts from; an update that returns None leaves the stored value alone;
\* eyes_closed holds iff the new smoothed value is strictly below 0.10.
C23_SmootherStatefulness ==
    last_call = "update" =>
        IF result = Nothing
        THEN ear_avg_ema = prev_ema
        ELSE /\ prev_ema # Unset =>
                    ear_avg_ema =
                        FracAdd(FracMul(FracSub(<<1, 1>>, ear_smoothing_alpha), prev_ema),
                                FracMul(ear_smoothing_alpha, AvgEar(points)))
             /\ result.ear_average = ear_avg_ema
             /\ result.eyes_closed <=> (10 * ear_avg_ema[1] < ear_avg_ema[2])

\* a stored 0.3 moved halfway towards a new average of 0.1
C23_Witness ==
    /\ last_call = "update"
    /\ result # Nothing
    /\ prev_ema = <<3, 10>>
    /\ ear_smoothing_alpha = <<1, 2>>
    /\ AvgEar(points) = <<1, 10>>
    /\ ear_avg_ema = <<1, 5>>
    /\ ~result.eyes_closed

\* an update that returned None on a smoother that held a value
C23_WitnessNone ==
    /\ last_call = "update"
    /\ result = Nothing
    /\ prev_ema = <<3, 10>>
    /\ ear_avg_ema = <<3, 10>>
    /\ calls = 3

(***************************************************************************)
(* The two EAR extractors on the same points                               *)
(***************************************************************************)
\* the landmarks of the frame in pixel coordinates, as eye_aspect_ratio sees them
PixelLandmarks ==
    [len |-> frame.landmarks.len,
     at |-> [k \in DOMAIN frame.landmarks.at |->
                Pixel(frame.landmarks.at[k], frame.width, frame.height)]]

\* C24 (as claimed): on the same six eye points in the same coordinate space,
\* FaceParser.eye_aspect_ratio and FaceAnalysis._calculate_ear return the same
\* value (A+B)/C.  Stated for eyes of non-zero width, where both divide.
C24_OneEarFormula ==
    (eyes # Nothing /\ eyes.ear_l[2] > 0 /\ eyes.ear_r[2] > 0) =>
        /\ eyes.ear_l = CalculateEar(PixelLandmarks, TRUE)
        /\ eyes.ear_r = CalculateEar(PixelLandmarks, FALSE)

(***************************************************************************)
(* The read operations of PERCLOSAnalyzer                                  *)
(***************************************************************************)
\* C25: calculate_perclos() and get_state() leave ear_history as it is;
\* get_state() changes no field of the analyzer; a calculate_perclos() that
\* follows a calculate_perclos() directly returns the same value and leaves
\* the same cached percentage and state.
C25_ReadsLeaveWindowAlone ==
    [][/\ last_op' \in {"calculate_perclos", "get_state"} =>
            UNCHANGED <<ear_history, window_seconds>>
       /\ last_op' = "get_state" =>
            UNCHANGED <<window_seconds, ear_history, current_perclos, current_state>>
       /\ (last_op = "calculate_perclos" /\ last_op' = "calculate_perclos") =>
            /\ ret' = ret
            /\ UNCHANGED <<current_perclos, current_state>>
    ]_vars

\* a calculate_perclos on a window of three samples, one of them closed
C25_Witness ==
    /\ last_op = "calculate_perclos"
    /\ Len(ear_history) = 3
    /\ ret = <<1, 3>>
    /\ current_perclos = <<1, 3>>
    /\ current_state = "Somnoliento"

(***************************************************************************)
(* How evaluate() ends                                                     *)
(***************************************************************************)
\* C26 (as claimed): on every dataset, the empty one and one where every
\* detection fails included, evaluate() has gone through each image once, in
\* dataset order, when it ends, raises no error, and ends with the metrics
\* record computed and the detector closed.
C26_EvaluateEndsCleanly ==
    Finished =>
        /\ image_index = Len(image_paths)
        /\ Len(predicted_labels) = Len(image_paths)
        /\ image_paths = dataset.drowsy \o dataset.non_drowsy
        /\ pc = "done"
        /\ HasMetrics(results)
        /\ detector = "closed"

====
